---- MODULE Spec2Model ----
(***************************************************************************)
(* Model of the commit-aggregation core of git-statistics:                 *)
(*   utils.map_alias_to_name, git_analyzer.collect_changes_by_group,       *)
(*   report_generator.calculate_balance_indicators, write_volumes_to_csv   *)
(*   and read_volumes, config.load_config and main.main.                   *)
(*                                                                         *)
(* A Python str is a sequence of one-character strings, so that strip()    *)
(* and lower() are computed and not assumed.  A datetime is a number of    *)
(* ticks; a calendar day holds TicksPerDay ticks and strftime('%Y-%m-%d')  *)
(* is the day a tick falls in.                                             *)
(***************************************************************************)
EXTENDS Integers, Sequences, FiniteSets, TLC

VARIABLES
    alias_mapping_by_group, \* config["alias_mapping_by_group"]
    group_label,            \* the group under analysis
    excluded,               \* config["excluded_members"]
    start_date,             \* fixed_project_start_date (ticks)
    end_date,               \* target_date + analysis_days (ticks)
    branches,               \* all_branches: each the commits iter_commits yields
    pc,                     \* position in the running function
    branch_idx,             \* index of the branch being traversed
    commit_idx,             \* commits of that branch already visited
    changes_by_group,       \* the dataset being built and returned
    warnings,               \* logging.warning calls made so far
    author_name,            \* argument of map_alias_to_name
    unified_name,           \* value returned by map_alias_to_name
    data,                   \* argument of calculate_balance_indicators
    balance,                \* value returned by calculate_balance_indicators
    args,                   \* parse_arguments(), each path with what it holds
    config,                 \* value returned by load_config
    fixed_project_start_date, \* main's start date (ticks)
    target_date,            \* main's target date (ticks)
    dir_idx,                \* entries of student_folders already iterated
    global_rows,            \* data rows written to output_csv
    daily_rows,             \* data rows written to daily_csv
    produced                \* the files created so far

vars == <<alias_mapping_by_group, group_label, excluded, start_date, end_date,
          branches, pc, branch_idx, commit_idx, changes_by_group, warnings,
          author_name, unified_name, data, balance, args, config,
          fixed_project_start_date, target_date, dir_idx, global_rows,
          daily_rows, produced>>

\* the state of main and write_volumes_to_csv
run_vars == <<args, config, fixed_project_start_date, target_date, dir_idx,
              global_rows, daily_rows, produced>>

----------------------------------------------------------------------------
(* Bounds                                                                  *)

MaxNameLen == 3
MaxBranches == 2
MaxMembers == 2
MaxEntries == 2
MaxTopEntries == 2
MaxTotalCommits == 2
TicksPerDay == 2

----------------------------------------------------------------------------
(* Python strings                                                          *)

Chars == {"a", "A", "b", " "}

Whitespace == {" "}

StringsUpTo(n) == UNION {[1..k -> Chars] : k \in 0..n}

LowerChar(c) == CASE c = "A" -> "a"
                  [] c = "B" -> "b"
                  [] OTHER -> c

\* str.lower()
Lower(s) == [i \in 1..Len(s) |-> LowerChar(s[i])]

\* str.strip()
Strip(s) ==
    LET keep == {i \in 1..Len(s) : s[i] \notin Whitespace}
    IN  IF keep = {} THEN <<>>
        ELSE LET lo == CHOOSE i \in keep : \A j \in keep : i <= j
                 hi == CHOOSE i \in keep : \A j \in keep : j <= i
             IN  SubSeq(s, lo, hi)

\* a dict with no key
EmptyDict == [k \in {} |-> k]

\* dict.get(key, default)
Get(d, k, default) == IF k \in DOMAIN d THEN d[k] ELSE default

\* d[key] = value
Put(d, k, v) == [x \in (DOMAIN d) \cup {k} |-> IF x = k THEN v ELSE d[x]]

\* all dicts with keys among K and values in V
DictsOver(K, V) == UNION {[D -> V] : D \in SUBSET K}

\* main is not running: a function is called on its own
RunIdle ==
    /\ args = EmptyDict
    /\ config = EmptyDict
    /\ fixed_project_start_date = 0
    /\ target_date = 0
    /\ dir_idx = 0
    /\ global_rows = <<>>
    /\ daily_rows = <<>>
    /\ produced = {}

----------------------------------------------------------------------------
(* utils.map_alias_to_name                                                 *)

\* the name lower-cased but not trimmed
LowerOnly(name) == Lower(name)

\* utils.py:35
NormalizeAuthor(name) == Lower(Strip(name))

\* the global table is not consulted for a group that has a table
GroupOnlyLookup(name, group, mapping) ==
    LET normalized_author == Lower(Strip(name))
        global_dict == Get(mapping, "global", EmptyDict)
    IN  IF group \in DOMAIN mapping
        THEN Get(mapping[group], normalized_author, normalized_author)
        ELSE Get(global_dict, normalized_author, normalized_author)

\* the name is returned as given when no alias is found
RawNameFallback(name, group, mapping) ==
    LET normalized_author == Lower(Strip(name))
        global_dict == Get(mapping, "global", EmptyDict)
    IN  IF group \in DOMAIN mapping /\ normalized_author \in DOMAIN mapping[group]
        THEN mapping[group][normalized_author]
        ELSE IF normalized_author \in DOMAIN global_dict
        THEN global_dict[normalized_author]
        ELSE name

\* the global table is consulted before the group's
GlobalFirstLookup(name, group, mapping) ==
    LET normalized_author == Lower(Strip(name))
        global_dict == Get(mapping, "global", EmptyDict)
    IN  IF normalized_author \in DOMAIN global_dict
        THEN global_dict[normalized_author]
        ELSE IF group \in DOMAIN mapping /\ normalized_author \in DOMAIN mapping[group]
        THEN mapping[group][normalized_author]
        ELSE normalized_author

map_alias_to_name(name, group, mapping) ==
    LET normalized_author == NormalizeAuthor(name)
        global_dict == Get(mapping, "global", EmptyDict)
    IN  IF group \in DOMAIN mapping /\ normalized_author \in DOMAIN mapping[group]
        THEN mapping[group][normalized_author]
        ELSE IF normalized_author \in DOMAIN global_dict
        THEN global_dict[normalized_author]
        ELSE normalized_author

----------------------------------------------------------------------------
(* Alias resolution on its own: one call of map_alias_to_name              *)

AliasKeys == {<<"a">>, <<"a", "b">>}

AliasValues == {<<"U">>, <<"b">>}

AliasGroups == {"g1", "g2", "global"}

\* the tables of the configuration: one dict per group that has one, and
\* possibly one under the reserved key "global"
AliasTables == DictsOver({"g1", "global"}, DictsOver(AliasKeys, AliasValues))

InitAlias ==
    /\ author_name \in StringsUpTo(MaxNameLen)
    /\ group_label \in AliasGroups
    /\ alias_mapping_by_group \in AliasTables
    /\ pc = "resolve"
    /\ RunIdle
    /\ unified_name = <<>>
    /\ excluded = <<>>
    /\ start_date = 0
    /\ end_date = 0
    /\ branches = <<>>
    /\ branch_idx = 0
    /\ commit_idx = 0
    /\ changes_by_group = EmptyDict
    /\ warnings = {}
    /\ data = EmptyDict
    /\ balance = EmptyDict

Resolve ==
    /\ pc = "resolve"
    /\ unified_name' = map_alias_to_name(author_name, group_label, alias_mapping_by_group)
    /\ pc' = "resolved"
    /\ UNCHANGED <<alias_mapping_by_group, group_label, excluded, start_date,
                   end_date, branches, branch_idx, commit_idx, changes_by_group,
                   warnings, author_name, data, balance, run_vars>>

NextAlias == Resolve

SpecAlias == InitAlias /\ [][NextAlias]_vars

GroupDict == Get(alias_mapping_by_group, group_label, EmptyDict)

GlobalDict == Get(alias_mapping_by_group, "global", EmptyDict)

\* the raw name, trimmed and then lower-cased
Normalized == Lower(Strip(author_name))

\* C1: group precedence - when the normalized name is a key of the group's
\* table, the result is the group's value for it, whatever the global table
\* holds for the same key.
C1_GroupPrecedence ==
    (pc = "resolved" /\ Normalized \in DOMAIN GroupDict)
        => unified_name = GroupDict[Normalized]

\* the group and the global table both hold the name, with different values
C1_Witness ==
    /\ pc = "resolved"
    /\ group_label # "global"
    /\ Normalized \in DOMAIN GroupDict
    /\ Normalized \in DOMAIN GlobalDict
    /\ GroupDict[Normalized] # GlobalDict[Normalized]
    /\ author_name # Normalized

\* C2: global fallback - when the normalized name is not a key of the
\* group's table (or the group has no table) but is a key of the global
\* table, the result is the global table's value for it.
C2_GlobalFallback ==
    (/\ pc = "resolved"
     /\ Normalized \notin DOMAIN GroupDict
     /\ Normalized \in DOMAIN GlobalDict)
        => unified_name = GlobalDict[Normalized]

\* a group with a table that misses the name, which the global table holds
C2_Witness ==
    /\ pc = "resolved"
    /\ group_label \in DOMAIN alias_mapping_by_group
    /\ GroupDict # EmptyDict
    /\ Normalized \notin DOMAIN GroupDict
    /\ Normalized \in DOMAIN GlobalDict
    /\ author_name # Normalized

\* C3: identity fallback - when neither the group's table nor the global
\* table holds the normalized name (the table may be empty and lack the
\* "global" key), the call returns the trimmed, lower-cased name itself.
C3_IdentityFallback ==
    (/\ pc = "resolved"
     /\ Normalized \notin DOMAIN GroupDict
     /\ Normalized \notin DOMAIN GlobalDict)
        => unified_name = Lower(Strip(author_name))

\* an empty alias table, and a name that normalization changes
C3_Witness ==
    /\ pc = "resolved"
    /\ alias_mapping_by_group = EmptyDict
    /\ author_name # Lower(Strip(author_name))
    /\ Len(Lower(Strip(author_name))) > 0

\* C4: normalization idempotence - resolving a raw name and resolving its
\* lower-cased, trimmed form give the same unified author.
C4_NormalizationIdempotent ==
    pc = "resolved" =>
        unified_name = map_alias_to_name(Strip(Lower(author_name)), group_label,
                                         alias_mapping_by_group)

\* a name with capitals and surrounding blanks that an alias table maps
C4_Witness ==
    /\ pc = "resolved"
    /\ author_name # Strip(Lower(author_name))
    /\ author_name # Strip(author_name)
    /\ author_name # Lower(author_name)
    /\ unified_name # Strip(Lower(author_name))

----------------------------------------------------------------------------
(* git_analyzer.collect_changes_by_group                                   *)

\* The commits of the repository under analysis, by identifier: the raw
\* author name, the committer time stamp and the totals of commit.stats.
Commit(id) ==
    CASE id = 1 -> [author |-> <<"A", " ">>, committed_date |-> TicksPerDay,
                    insertions |-> 10, deletions |-> 2]
      [] id = 2 -> [author |-> <<"a">>, committed_date |-> TicksPerDay + 1,
                    insertions |-> 1, deletions |-> 0]
      [] id = 3 -> [author |-> <<"b">>, committed_date |-> 2 * TicksPerDay,
                    insertions |-> 0, deletions |-> 3]

CommitIds == {1, 2, 3}

\* what iter_commits can yield for one branch: commits of the repository,
\* each at most once, the most recent first
Histories ==
    {h \in UNION {[1..k -> CommitIds] : k \in 0..Cardinality(CommitIds)} :
        \A i, j \in 1..Len(h) :
            i < j => Commit(h[i]).committed_date > Commit(h[j]).committed_date}

Repositories == UNION {[1..n -> Histories] : n \in 0..MaxBranches}

\* the analysis windows of a run: both ends are calendar dates (midnight)
Windows ==
    { [start |-> TicksPerDay, end |-> 2 * TicksPerDay],
      [start |-> TicksPerDay, end |-> 3 * TicksPerDay],
      [start |-> 2 * TicksPerDay, end |-> 3 * TicksPerDay] }

NoAliases == EmptyDict

\* in group g1 "b" is an alias of "a"; in the other groups it is one of "U"
SomeAliases ==
    [g \in {"g1", "global"} |->
        IF g = "g1" THEN [k \in {<<"b">>} |-> <<"a">>]
                    ELSE [k \in {<<"b">>} |-> <<"U">>]]

\* in group g1 "b" is an alias of "a", and "a" itself one of "U"
CrossAliases ==
    [g \in {"g1"} |->
        [k \in {<<"a">>, <<"b">>} |-> IF k = <<"a">> THEN <<"U">> ELSE <<"a">>]]

\* the configurations of a run: excluded_members and alias_mapping_by_group
Configs ==
    { [excluded_members |-> <<>>, aliases |-> NoAliases],
      [excluded_members |-> << <<"B">> >>, aliases |-> NoAliases],
      [excluded_members |-> << <<"A", " ">> >>, aliases |-> NoAliases],
      [excluded_members |-> <<>>, aliases |-> SomeAliases],
      [excluded_members |-> << <<"B">> >>, aliases |-> SomeAliases],
      [excluded_members |-> << <<"a">> >>, aliases |-> CrossAliases] }

\* strftime('%Y-%m-%d') of a datetime: the calendar day it falls in
DayStr(date) == date \div TicksPerDay

\* the window with its end included
ClosedWindow(date) == start_date <= date /\ date <= end_date

\* git_analyzer.py:97
InWindow(date) == start_date <= date /\ date < end_date

\* git_analyzer.py:101
AuthorRaw(commit) == Lower(Strip(commit.author))

\* the exclusion decided on the unified name the author resolves to
IsExcludedUnified(author_raw) ==
    \E k \in 1..Len(excluded) :
        Lower(excluded[k]) = map_alias_to_name(author_raw, group_label,
                                               alias_mapping_by_group)

\* git_analyzer.py:102
IsExcluded(author_raw) ==
    \E k \in 1..Len(excluded) : Lower(excluded[k]) = author_raw

\* the default value of the inner defaultdict
NewStats == [insertions |-> 0, deletions |-> 0, daily_commits |-> EmptyDict,
             daily_insertions |-> EmptyDict, daily_deletions |-> EmptyDict,
             active_days |-> 0]

\* Counter: counter[key] += n
CounterAdd(counter, key, n) == Put(counter, key, Get(counter, key, 0) + n)

\* the deletions counter fed with the insertions
AccumulateInsertionsOnly(changes, commit) ==
    LET unified == map_alias_to_name(AuthorRaw(commit), group_label,
                                     alias_mapping_by_group)
        day_str == DayStr(commit.committed_date)
        grp == Get(changes, group_label, EmptyDict)
        ch == Get(grp, unified, NewStats)
        upd == [ch EXCEPT
                  !.daily_commits = CounterAdd(@, day_str, 1),
                  !.daily_insertions = CounterAdd(@, day_str, commit.insertions),
                  !.daily_deletions = CounterAdd(@, day_str, commit.insertions)]
    IN  Put(changes, group_label, Put(grp, unified, upd))

\* the counters keyed by the normalized raw name, the alias table left aside
AccumulateByRawName(changes, commit) ==
    LET unified == AuthorRaw(commit)
        day_str == DayStr(commit.committed_date)
        grp == Get(changes, group_label, EmptyDict)
        ch == Get(grp, unified, NewStats)
        upd == [ch EXCEPT
                  !.daily_commits = CounterAdd(@, day_str, 1),
                  !.daily_insertions = CounterAdd(@, day_str, commit.insertions),
                  !.daily_deletions = CounterAdd(@, day_str, commit.deletions)]
    IN  Put(changes, group_label, Put(grp, unified, upd))

\* the day's insertions and deletions overwritten by the last commit visited
AccumulateLastWins(changes, commit) ==
    LET unified == map_alias_to_name(AuthorRaw(commit), group_label,
                                     alias_mapping_by_group)
        day_str == DayStr(commit.committed_date)
        grp == Get(changes, group_label, EmptyDict)
        ch == Get(grp, unified, NewStats)
        upd == [ch EXCEPT
                  !.daily_commits = CounterAdd(@, day_str, 1),
                  !.daily_insertions = Put(@, day_str, commit.insertions),
                  !.daily_deletions = Put(@, day_str, commit.deletions)]
    IN  Put(changes, group_label, Put(grp, unified, upd))

\* git_analyzer.py:106-114
Accumulate(changes, commit) ==
    LET unified == map_alias_to_name(AuthorRaw(commit), group_label,
                                     alias_mapping_by_group)
        day_str == DayStr(commit.committed_date)
        grp == Get(changes, group_label, EmptyDict)
        ch == Get(grp, unified, NewStats)
        upd == [ch EXCEPT
                  !.daily_commits = CounterAdd(@, day_str, 1),
                  !.daily_insertions = CounterAdd(@, day_str, commit.insertions),
                  !.daily_deletions = CounterAdd(@, day_str, commit.deletions)]
    IN  Put(changes, group_label, Put(grp, unified, upd))

RECURSIVE SumValues(_)
\* sum(counter.values())
SumValues(counter) ==
    IF DOMAIN counter = {} THEN 0
    ELSE LET k == CHOOSE k \in DOMAIN counter : TRUE
         IN  counter[k] + SumValues([x \in (DOMAIN counter) \ {k} |-> counter[x]])

\* active_days taken as the number of commits
SummarizeCommitsAsDays(changes) ==
    [grp \in DOMAIN changes |->
        [member \in DOMAIN changes[grp] |->
            LET d == changes[grp][member]
            IN  [d EXCEPT
                   !.insertions = SumValues(d.daily_insertions),
                   !.deletions = SumValues(d.daily_deletions),
                   !.active_days = SumValues(d.daily_commits)]]]

\* git_analyzer.py:119-123
Summarize(changes) ==
    [grp \in DOMAIN changes |->
        [member \in DOMAIN changes[grp] |->
            LET d == changes[grp][member]
            IN  [d EXCEPT
                   !.insertions = SumValues(d.daily_insertions),
                   !.deletions = SumValues(d.daily_deletions),
                   !.active_days = Cardinality({day \in DOMAIN d.daily_commits :
                                                   d.daily_commits[day] > 0})]]]

Init ==
    /\ \E c \in Configs :
          /\ alias_mapping_by_group = c.aliases
          /\ excluded = c.excluded_members
    /\ group_label = "g1"
    /\ \E w \in Windows :
          /\ start_date = w.start
          /\ end_date = w.end
    /\ branches \in Repositories
    /\ pc = "start"
    /\ RunIdle
    /\ branch_idx = 0
    /\ commit_idx = 0
    /\ changes_by_group = EmptyDict
    /\ warnings = {}
    /\ author_name = <<>>
    /\ unified_name = <<>>
    /\ data = EmptyDict
    /\ balance = EmptyDict

inputs == <<alias_mapping_by_group, group_label, excluded, start_date, end_date,
            branches, author_name, unified_name, data, balance, run_vars>>

\* no .git directory under repo_path: return {}
NoGitDir ==
    /\ pc = "start"
    /\ pc' = "done"
    /\ UNCHANGED <<inputs, branch_idx, commit_idx, changes_by_group, warnings>>

\* git.Repo(repo_path) raises: log and return {}
OpenFails ==
    /\ pc = "start"
    /\ warnings' = warnings \cup {<<"repo", 0>>}
    /\ pc' = "done"
    /\ UNCHANGED <<inputs, branch_idx, commit_idx, changes_by_group>>

\* the repository opens; the branches are listed and the loop starts
OpenRepo ==
    /\ pc = "start"
    /\ pc' = "branches"
    /\ branch_idx' = 1
    /\ commit_idx' = 0
    /\ UNCHANGED <<inputs, changes_by_group, warnings>>

InBranch == pc = "branches" /\ branch_idx <= Len(branches)

HasNextCommit == InBranch /\ commit_idx < Len(branches[branch_idx])

NextCommit == Commit(branches[branch_idx][commit_idx + 1])

\* a commit outside [start_date, end_date): continue
SkipOutsideWindow ==
    /\ HasNextCommit
    /\ ~InWindow(NextCommit.committed_date)
    /\ commit_idx' = commit_idx + 1
    /\ UNCHANGED <<inputs, pc, branch_idx, changes_by_group, warnings>>

\* the author's entry looked up before the exclusion filter, which leaves
\* the default entry of an excluded author in the dataset
SkipExcludedKeepsEntry ==
    /\ HasNextCommit
    /\ InWindow(NextCommit.committed_date)
    /\ IsExcluded(AuthorRaw(NextCommit))
    /\ LET unified == map_alias_to_name(AuthorRaw(NextCommit), group_label,
                                        alias_mapping_by_group)
           grp == Get(changes_by_group, group_label, EmptyDict)
       IN  changes_by_group' =
               Put(changes_by_group, group_label,
                   Put(grp, unified, Get(grp, unified, NewStats)))
    /\ commit_idx' = commit_idx + 1
    /\ UNCHANGED <<inputs, pc, branch_idx, warnings>>

\* a commit of an excluded author: continue
SkipExcluded ==
    /\ HasNextCommit
    /\ InWindow(NextCommit.committed_date)
    /\ IsExcluded(AuthorRaw(NextCommit))
    /\ commit_idx' = commit_idx + 1
    /\ UNCHANGED <<inputs, pc, branch_idx, changes_by_group, warnings>>

\* a commit already met on an earlier branch is not counted again
CountCommitOnce ==
    /\ HasNextCommit
    /\ InWindow(NextCommit.committed_date)
    /\ ~IsExcluded(AuthorRaw(NextCommit))
    /\ changes_by_group' =
          IF \E i \in 1..(branch_idx - 1) : \E j \in 1..Len(branches[i]) :
                 branches[i][j] = branches[branch_idx][commit_idx + 1]
          THEN changes_by_group
          ELSE Accumulate(changes_by_group, NextCommit)
    /\ commit_idx' = commit_idx + 1
    /\ UNCHANGED <<inputs, pc, branch_idx, warnings>>

\* a commit that passes both filters is added to its author's counters
CountCommit ==
    /\ HasNextCommit
    /\ InWindow(NextCommit.committed_date)
    /\ ~IsExcluded(AuthorRaw(NextCommit))
    /\ changes_by_group' = Accumulate(changes_by_group, NextCommit)
    /\ commit_idx' = commit_idx + 1
    /\ UNCHANGED <<inputs, pc, branch_idx, warnings>>

\* iter_commits is exhausted: next branch
EndBranch ==
    /\ InBranch
    /\ commit_idx = Len(branches[branch_idx])
    /\ branch_idx' = branch_idx + 1
    /\ commit_idx' = 0
    /\ UNCHANGED <<inputs, pc, changes_by_group, warnings>>

\* iter_commits or commit.stats raises: the rest of the branch is skipped
BranchFails ==
    /\ InBranch
    /\ warnings' = warnings \cup {<<"branch", branch_idx>>}
    /\ branch_idx' = branch_idx + 1
    /\ commit_idx' = 0
    /\ UNCHANGED <<inputs, pc, changes_by_group>>

\* all branches done: the totals are computed and the dataset returned
ReturnChanges ==
    /\ pc = "branches"
    /\ branch_idx > Len(branches)
    /\ changes_by_group' = Summarize(changes_by_group)
    /\ pc' = "done"
    /\ UNCHANGED <<inputs, branch_idx, commit_idx, warnings>>

Next ==
    \/ NoGitDir
    \/ OpenFails
    \/ OpenRepo
    \/ SkipOutsideWindow
    \/ SkipExcluded
    \/ CountCommit
    \/ EndBranch
    \/ BranchFails
    \/ ReturnChanges

Spec == Init /\ [][Next]_vars

----------------------------------------------------------------------------
(* Properties of collect_changes_by_group                                  *)

\* every (branch, position) at which iter_commits yields a commit
Visits ==
    UNION {{<<i, j>> : j \in 1..Len(branches[i])} : i \in 1..Len(branches)}

VisitedCommit(v) == Commit(branches[v[1]][v[2]])

\* the unified author of a commit: its raw name resolved by the alias table
UnifiedOf(commit) ==
    map_alias_to_name(commit.author, group_label, alias_mapping_by_group)

\* the commit date lies in the half-open window [start_date, end_date)
InHalfOpenWindow(commit) ==
    start_date <= commit.committed_date /\ commit.committed_date < end_date

\* the branches whose traversal was abandoned
FailedBranches == {i \in 1..Len(branches) : <<"branch", i>> \in warnings}

\* the repository was opened and the dataset returned
Returned == pc = "done" /\ branch_idx > 0

\* the authors of the group in a dataset
Members(changes) == Get(changes, group_label, EmptyDict)

\* the bucket (group, author, day) of a dataset: <<commits, insertions, deletions>>
Bucket(changes, u, d) ==
    LET a == Get(Members(changes), u, NewStats)
    IN  <<Get(a.daily_commits, d, 0), Get(a.daily_insertions, d, 0),
          Get(a.daily_deletions, d, 0)>>

\* the days a dataset holds for an author
DaysOf(changes, u) ==
    LET a == Get(Members(changes), u, NewStats)
    IN  (DOMAIN a.daily_commits) \cup (DOMAIN a.daily_insertions)
            \cup (DOMAIN a.daily_deletions)

\* the (author, day) pairs a dataset holds
Keys(changes) ==
    UNION {{<<u, d>> : d \in DaysOf(changes, u)} : u \in DOMAIN Members(changes)}

\* the visits of a set that fall in the bucket (u, d)
InBucket(S, u, d) ==
    {v \in S : /\ UnifiedOf(VisitedCommit(v)) = u
               /\ DayStr(VisitedCommit(v).committed_date) = d}

RECURSIVE VisitSum(_, _)
\* the commits, insertions and deletions of a set of visits
VisitSum(S, what) ==
    IF S = {} THEN 0
    ELSE LET v == CHOOSE v \in S : TRUE
             c == VisitedCommit(v)
             n == CASE what = "commits" -> 1
                    [] what = "insertions" -> c.insertions
                    [] what = "deletions" -> c.deletions
         IN  n + VisitSum(S \ {v}, what)

Contribution(S) ==
    <<VisitSum(S, "commits"), VisitSum(S, "insertions"), VisitSum(S, "deletions")>>

AtMost(x, y) == x[1] <= y[1] /\ x[2] <= y[2] /\ x[3] <= y[3]

LastDay == DayStr(end_date)

RECURSIVE SumDays(_, _)
\* the sum of a per-day counter over the days 0..d
SumDays(counter, d) ==
    IF d < 0 THEN 0 ELSE Get(counter, d, 0) + SumDays(counter, d - 1)

\* C5: derived values - in the returned dataset every author's insertions
\* and deletions are the sums of the daily insertions and deletions, and
\* active_days is the number of days with a non-zero commit count.
C5_DerivedValues ==
    Returned =>
        \A g \in DOMAIN changes_by_group :
            \A m \in DOMAIN changes_by_group[g] :
                LET a == changes_by_group[g][m]
                IN  /\ a.insertions = SumDays(a.daily_insertions, LastDay)
                    /\ a.deletions = SumDays(a.daily_deletions, LastDay)
                    /\ a.active_days =
                         Cardinality({d \in 0..LastDay :
                                         Get(a.daily_commits, d, 0) # 0})

\* an author with two active days, one of them with several commits
C5_Witness ==
    /\ Returned
    /\ \E m \in DOMAIN Members(changes_by_group) :
          LET a == Members(changes_by_group)[m]
          IN  /\ a.active_days = 2
              /\ \E d \in DOMAIN a.daily_commits : a.daily_commits[d] >= 2
              /\ a.insertions > 0
              /\ a.deletions > 0

\* C6: half-open window - every day the dataset holds lies in
\* [start_date, end_date); a bucket never counts more than the visited
\* commits with start_date <= date < end_date; and once the dataset is
\* returned every non-excluded commit of that window on a branch that was
\* traversed to its end is counted, the one dated start_date included.
C6_HalfOpenWindow ==
    /\ \A k \in Keys(changes_by_group) :
          /\ start_date <= k[2] * TicksPerDay
          /\ k[2] * TicksPerDay < end_date
          /\ AtMost(Bucket(changes_by_group, k[1], k[2]),
                    Contribution(InBucket({v \in Visits :
                        InHalfOpenWindow(VisitedCommit(v))}, k[1], k[2])))
    /\ Returned =>
          \A v \in Visits :
              (/\ v[1] \notin FailedBranches
               /\ InHalfOpenWindow(VisitedCommit(v))
               /\ ~IsExcluded(AuthorRaw(VisitedCommit(v))))
              => LET u == UnifiedOf(VisitedCommit(v))
                     d == DayStr(VisitedCommit(v).committed_date)
                 IN  AtMost(Contribution(InBucket({w \in Visits :
                                /\ w[1] \notin FailedBranches
                                /\ InHalfOpenWindow(VisitedCommit(w))
                                /\ ~IsExcluded(AuthorRaw(VisitedCommit(w)))},
                                u, d)),
                            Bucket(changes_by_group, u, d))

\* one branch holds a commit dated start_date, which is counted, and a
\* commit dated end_date, whose day is absent from the dataset
C6_Witness ==
    /\ Returned
    /\ \E v, w \in Visits :
          /\ v[1] = w[1]
          /\ v[1] \notin FailedBranches
          /\ VisitedCommit(v).committed_date = start_date
          /\ VisitedCommit(w).committed_date = end_date
          /\ Bucket(changes_by_group, UnifiedOf(VisitedCommit(v)),
                    DayStr(start_date))[1] >= 1
          /\ Bucket(changes_by_group, UnifiedOf(VisitedCommit(w)),
                    DayStr(end_date)) = <<0, 0, 0>>

\* an author is listed in excluded_members, in any letter case
Listed(name) == \E k \in 1..Len(excluded) : Lower(excluded[k]) = Lower(name)

\* C7: author exclusion - the commits of an author listed in
\* excluded_members, in any letter case, add nothing to the returned
\* dataset: no bucket holds more commits, insertions or deletions than the
\* visited commits of the authors that are not listed.
C7_ExcludedAuthorsAbsent ==
    Returned =>
        \A k \in Keys(changes_by_group) :
            AtMost(Bucket(changes_by_group, k[1], k[2]),
                   Contribution(InBucket({v \in Visits :
                       ~Listed(VisitedCommit(v).author)}, k[1], k[2])))

\* the qualifying commits: in the window and not dropped by the exclusion filter
Qualifies(commit) ==
    InHalfOpenWindow(commit) /\ ~IsExcluded(AuthorRaw(commit))

\* the step visits a commit that passes both filters
VisitsQualifying ==
    /\ HasNextCommit
    /\ commit_idx' = commit_idx + 1
    /\ branch_idx' = branch_idx
    /\ Qualifies(NextCommit)

\* the step adds the commit to its own bucket and leaves every other alone
C10_Step ==
    VisitsQualifying =>
        LET c == NextCommit
            u == UnifiedOf(c)
            d == DayStr(c.committed_date)
            old == Bucket(changes_by_group, u, d)
        IN  /\ Bucket(changes_by_group', u, d) =
                 <<old[1] + 1, old[2] + c.insertions, old[3] + c.deletions>>
            /\ Keys(changes_by_group') = Keys(changes_by_group) \cup {<<u, d>>}
            /\ \A k \in Keys(changes_by_group) :
                  k # <<u, d>> => Bucket(changes_by_group', k[1], k[2]) =
                                  Bucket(changes_by_group, k[1], k[2])
            /\ DOMAIN changes_by_group' = {group_label}

\* what the scenario's repository yields: the author of commit 1 alone, with
\* one commit of +10/-2 on one active day
ScenarioDataset ==
    LET c == Commit(1)
        d == DayStr(c.committed_date)
    IN  [g \in {group_label} |->
           [m \in {UnifiedOf(c)} |->
              [insertions |-> 10, deletions |-> 2, active_days |-> 1,
               daily_commits |-> [x \in {d} |-> 1],
               daily_insertions |-> [x \in {d} |-> 10],
               daily_deletions |-> [x \in {d} |-> 2]]]]

\* the visits of qualifying commits
QualifyingVisits == {v \in Visits : Qualifies(VisitedCommit(v))}

\* commit 1 ("A ", +10/-2) is the repository's only qualifying commit
SingleQualifyingCommit ==
    {branches[v[1]][v[2]] : v \in QualifyingVisits} = {1}

\* C10 as first stated, its scenario: a repository whose only qualifying commit
\* is the commit by "A " (+10/-2), traversed without failure, yields that
\* author with insertions 10, deletions 2, one commit and one active day
C10_ScenarioAsStated ==
    (Returned /\ warnings = {} /\ SingleQualifyingCommit)
        => changes_by_group = ScenarioDataset

\* the scenario, for a commit that one branch only reaches
C10_Scenario ==
    (/\ Returned
     /\ warnings = {}
     /\ SingleQualifyingCommit
     /\ Cardinality(QualifyingVisits) = 1)
        => changes_by_group = ScenarioDataset

\* C10: per-commit accumulation - each visit of a commit that passes the
\* window and exclusion filters adds 1 to the commit count of the bucket
\* (group, unified author, commit day) and the commit's insertions and
\* deletions to the same bucket, and changes no other bucket; a repository
\* whose single qualifying commit, by "A " (+10/-2), is reached from exactly
\* one branch and traversed without failure yields author "a" with
\* insertions 10, deletions 2, one commit, one active day.
C10_PerCommitAccumulation == [][C10_Step]_vars /\ []C10_Scenario

\* the scenario's repository, with other commits outside the window
C10_Witness ==
    /\ Returned
    /\ warnings = {}
    /\ SingleQualifyingCommit
    /\ Cardinality(QualifyingVisits) = 1
    /\ Cardinality(Visits) >= 2
    /\ UnifiedOf(Commit(1)) = <<"a">>
    /\ changes_by_group = ScenarioDataset

----------------------------------------------------------------------------
(* report_generator.calculate_balance_indicators                           *)

\* A group of the global statistics is the list of its members in the
\* order of the dict, each with its 'total_commits'.  A ratio n / d is the
\* pair <<n, d>>; the integer 0 is <<0, 1>>.

RECURSIVE SumCommits(_)
\* sum(m['total_commits'] for m in members.values())
SumCommits(members) ==
    IF members = <<>> THEN 0
    ELSE Head(members).total_commits + SumCommits(Tail(members))

\* max(m['total_commits'] for m in members.values())
MaxCommits(members) ==
    CHOOSE n \in {members[i].total_commits : i \in 1..Len(members)} :
        \A i \in 1..Len(members) : members[i].total_commits <= n

\* the loop of lines 175-181 without its break: the last member with the
\* maximum is kept
LastWithCommits(members, n) ==
    LET hits == {i \in 1..Len(members) : members[i].total_commits = n}
    IN  members[CHOOSE i \in hits : \A j \in hits : j <= i].member

\* the member at which the loop of lines 175-181 breaks
FirstWithCommits(members, n) ==
    LET hits == {i \in 1..Len(members) : members[i].total_commits = n}
    IN  members[CHOOSE i \in hits : \A j \in hits : i <= j].member

\* the ratio taken over the number of members instead of the commits
BalanceOverMembers(members) ==
    LET total_commits == SumCommits(members)
    IN  IF total_commits > 0
        THEN [dominant_ratio |-> <<MaxCommits(members), Len(members)>>,
              dominant_member |-> FirstWithCommits(members, MaxCommits(members))]
        ELSE [dominant_ratio |-> <<0, 1>>, dominant_member |-> "None"]

\* the body of the loop over the groups
BalanceOf(members) ==
    LET total_commits == SumCommits(members)
    IN  IF total_commits > 0
        THEN [dominant_ratio |-> <<MaxCommits(members), total_commits>>,
              dominant_member |-> FirstWithCommits(members, MaxCommits(members))]
        ELSE [dominant_ratio |-> <<0, 1>>, dominant_member |-> "None"]

calculate_balance_indicators(d) == [group \in DOMAIN d |-> BalanceOf(d[group])]

MemberNames == {"m1", "m2", "m3", "m4"}

\* the commit totals of the members; 5 and 15 are the totals of the
\* documented scenario
TotalCommitValues == (0..MaxTotalCommits) \cup {5, 15}

\* the member lists of a group: distinct members, at least one
MemberLists(n) ==
    {l \in UNION {[1..k -> [member : MemberNames, total_commits : TotalCommitValues]] :
                     k \in 1..n} :
        \A i, j \in 1..Len(l) : i # j => l[i].member # l[j].member}

InitBalance ==
    /\ \E la \in MemberLists(MaxMembers), lb \in MemberLists(1) :
          data = [g \in {"A", "B"} |-> IF g = "A" THEN la ELSE lb]
    /\ balance = EmptyDict
    /\ pc = "balance"
    /\ RunIdle
    /\ alias_mapping_by_group = EmptyDict
    /\ group_label = "A"
    /\ excluded = <<>>
    /\ start_date = 0
    /\ end_date = 0
    /\ branches = <<>>
    /\ branch_idx = 0
    /\ commit_idx = 0
    /\ changes_by_group = EmptyDict
    /\ warnings = {}
    /\ author_name = <<>>
    /\ unified_name = <<>>

CalculateBalance ==
    /\ pc = "balance"
    /\ balance' = calculate_balance_indicators(data)
    /\ pc' = "balanced"
    /\ UNCHANGED <<alias_mapping_by_group, group_label, excluded, start_date,
                   end_date, branches, branch_idx, commit_idx, changes_by_group,
                   warnings, author_name, unified_name, data, run_vars>>

NextBalance == CalculateBalance

SpecBalance == InitBalance /\ [][NextBalance]_vars

\* the commits of the i-th member of a group
CommitsOf(g, i) == data[g][i].total_commits

\* the total commits of a group, member by member
GroupTotal(g) ==
    LET RECURSIVE upto(_)
        upto(i) == IF i = 0 THEN 0 ELSE CommitsOf(g, i) + upto(i - 1)
    IN  upto(Len(data[g]))

\* the ratio r is the quotient n / d
IsQuotient(r, n, d) == r[2] # 0 /\ d # 0 /\ r[1] * d = n * r[2]

\* C8: a group whose members' commits sum to zero has ratio 0 and no
\* dominant member; a group in which one member has strictly more commits
\* than every other has that member as dominant member, with ratio that
\* member's commits over the group's total commits (a quotient that exists
\* only for a positive total, the other case being the first).
C8_BalanceIndicator ==
    pc = "balanced" =>
        \A g \in DOMAIN data :
            /\ g \in DOMAIN balance
            /\ GroupTotal(g) = 0 =>
                  /\ balance[g].dominant_ratio[1] = 0
                  /\ balance[g].dominant_member = "None"
            /\ \A i \in 1..Len(data[g]) :
                  (/\ GroupTotal(g) > 0
                   /\ \A j \in 1..Len(data[g]) :
                         j # i => CommitsOf(g, j) < CommitsOf(g, i))
                  => /\ balance[g].dominant_member = data[g][i].member
                     /\ IsQuotient(balance[g].dominant_ratio, CommitsOf(g, i),
                                   GroupTotal(g))

\* the documented scenario: totals {5, 15} give the 15-commit member with
\* ratio 15/20 = 3/4, and a group with total 0 gives ratio 0 and no member
C8_Witness ==
    /\ pc = "balanced"
    /\ Len(data["A"]) = 2
    /\ CommitsOf("A", 1) = 5
    /\ CommitsOf("A", 2) = 15
    /\ balance["A"].dominant_member = data["A"][2].member
    /\ IsQuotient(balance["A"].dominant_ratio, 3, 4)
    /\ CommitsOf("B", 1) = 0
    /\ balance["B"].dominant_member = "None"
    /\ balance["B"].dominant_ratio[1] = 0

\* C9: when several members of a group with a positive total share the
\* maximum commit count, the dominant member is the first of them in the
\* order of the group's members.
C9_FirstOnTies ==
    pc = "balanced" =>
        \A g \in DOMAIN data :
            GroupTotal(g) > 0 =>
                \E i \in 1..Len(data[g]) :
                    /\ balance[g].dominant_member = data[g][i].member
                    /\ \A j \in 1..Len(data[g]) : CommitsOf(g, j) <= CommitsOf(g, i)
                    /\ \A j \in 1..(i - 1) : CommitsOf(g, j) < CommitsOf(g, i)

\* two members share a positive maximum and the first of them is dominant
C9_Witness ==
    /\ pc = "balanced"
    /\ \E i, j \in 1..Len(data["A"]) :
          /\ i < j
          /\ CommitsOf("A", i) = CommitsOf("A", j)
          /\ CommitsOf("A", i) > 0
          /\ \A k \in 1..Len(data["A"]) : CommitsOf("A", k) <= CommitsOf("A", i)
          /\ balance["A"].dominant_member = data["A"][i].member

\* ---------------------------------------------------------------------
\* Branch failures, recount across branches, alias unification
\* ---------------------------------------------------------------------

\* the qualifying visits on the branches whose traversal did not fail
HealthyVisits == {v \in QualifyingVisits : v[1] \notin FailedBranches}

\* the (author, day) buckets a set of visits falls into
BucketsOf(S) ==
    {<<UnifiedOf(VisitedCommit(v)), DayStr(VisitedCommit(v).committed_date)>> :
        v \in S}

\* a dataset holds exactly what a set of visits contributes
HoldsExactly(changes, S) ==
    /\ Keys(changes) = BucketsOf(S)
    /\ \A k \in BucketsOf(S) :
          Bucket(changes, k[1], k[2]) = Contribution(InBucket(S, k[1], k[2]))

\* C12: branch-failure recovery - when the traversal of a branch fails, at
\* any point, the returned dataset is the one obtained by aggregating the
\* remaining branches only: it holds the qualifying commits of the branches
\* that did not fail and nothing of the failed branch.
C12_FailedBranchSkipped ==
    Returned => HoldsExactly(changes_by_group, HealthyVisits)

\* the number of enumerated branches a commit is reachable from
Reach(c) ==
    Cardinality({i \in 1..Len(branches) :
                    \E j \in 1..Len(branches[i]) : branches[i][j] = c})

\* the qualifying commits of the repository that fall in the bucket (u, d)
CommitsInBucket(u, d) ==
    {c \in CommitIds : /\ Reach(c) > 0
                       /\ Qualifies(Commit(c))
                       /\ UnifiedOf(Commit(c)) = u
                       /\ DayStr(Commit(c).committed_date) = d}

RECURSIVE Recounted(_)
\* every commit of a set taken once per branch that reaches it
Recounted(S) ==
    IF S = {} THEN <<0, 0, 0>>
    ELSE LET c == CHOOSE c \in S : TRUE
             r == Recounted(S \ {c})
             k == Reach(c)
         IN  <<r[1] + k, r[2] + k * Commit(c).insertions,
               r[3] + k * Commit(c).deletions>>

\* the commits a dataset counts, all authors and days together
TotalCommits(changes) ==
    LET m == Members(changes)
    IN  SumValues([u \in DOMAIN m |-> SumValues(m[u].daily_commits)])

\* C16: cross-branch recount - branches are not deduplicated: when every
\* branch is traversed without failure, a qualifying commit reachable from
\* k of the enumerated branches adds k to its author's commit count of its
\* day, and k times its insertions and deletions, so every bucket holds the
\* sum of k, k * insertions and k * deletions over its commits.
C16_CrossBranchRecount ==
    (Returned /\ warnings = {}) =>
        \A c \in CommitIds :
            (Reach(c) > 0 /\ Qualifies(Commit(c))) =>
                LET u == UnifiedOf(Commit(c))
                    d == DayStr(Commit(c).committed_date)
                IN  Bucket(changes_by_group, u, d) =
                        Recounted(CommitsInBucket(u, d))

\* a qualifying commit on two branches, alone in its bucket, is counted
\* twice, and the dataset counts more commits than the repository holds
C16_Witness ==
    /\ Returned
    /\ warnings = {}
    /\ \E c \in CommitIds :
          LET u == UnifiedOf(Commit(c))
              d == DayStr(Commit(c).committed_date)
          IN  /\ Reach(c) = 2
              /\ Qualifies(Commit(c))
              /\ CommitsInBucket(u, d) = {c}
              /\ Bucket(changes_by_group, u, d) =
                     <<2, 2 * Commit(c).insertions, 2 * Commit(c).deletions>>
    /\ TotalCommits(changes_by_group) >
           Cardinality({c \in CommitIds : Reach(c) > 0 /\ Qualifies(Commit(c))})

\* the raw author names of the qualifying visits that resolve to u
RawIdentities(u) ==
    {VisitedCommit(v).author : v \in {w \in QualifyingVisits :
                                        UnifiedOf(VisitedCommit(w)) = u}}

\* the dataset's totals of an author: <<commits, insertions, deletions>>
TotalsOf(changes, u) ==
    LET a == Get(Members(changes), u, NewStats)
    IN  <<SumValues(a.daily_commits), a.insertions, a.deletions>>

\* C20: alias unification - when every branch is traversed without
\* failure, the qualifying commits whose raw author names resolve to the
\* same unified author are accumulated into that author's single entry:
\* the group's entries are exactly the unified names, every daily bucket
\* and the totals of an entry are the sums over all the commits that
\* resolve to it whatever their raw name, and a raw name that is not
\* itself a unified name has no entry.
C20_AliasUnification ==
    (Returned /\ warnings = {}) =>
        /\ DOMAIN Members(changes_by_group) =
               {UnifiedOf(VisitedCommit(v)) : v \in QualifyingVisits}
        /\ \A u \in DOMAIN Members(changes_by_group) :
              /\ TotalsOf(changes_by_group, u) =
                     Contribution({v \in QualifyingVisits :
                                      UnifiedOf(VisitedCommit(v)) = u})
              /\ \A d \in DaysOf(changes_by_group, u) :
                     Bucket(changes_by_group, u, d) =
                         Contribution(InBucket(QualifyingVisits, u, d))
        /\ \A v \in QualifyingVisits :
              LET raw == VisitedCommit(v).author
              IN  (\A w \in QualifyingVisits : UnifiedOf(VisitedCommit(w)) # raw)
                      => raw \notin DOMAIN Members(changes_by_group)

\* commits signed "A ", "a" and "b" all resolve to "a" (by normalization and
\* by the group's alias table) and the dataset holds the one entry "a" with
\* their three commits
C20_Witness ==
    /\ Returned
    /\ warnings = {}
    /\ RawIdentities(<<"a">>) = {<<"A", " ">>, <<"a">>, <<"b">>}
    /\ DOMAIN Members(changes_by_group) = {<<"a">>}
    /\ TotalsOf(changes_by_group, <<"a">>)[1] >= 3

----------------------------------------------------------------------------
(* Order of traversal                                                      *)

\* a branch's commits in any order (iter_commits follows the commit graph,
\* and committer dates need not decrease along it)
AnyOrderHistories ==
    {h \in UNION {[1..n -> CommitIds] : n \in 0..Cardinality(CommitIds)} :
        \A i, j \in 1..Len(h) : i # j => h[i] # h[j]}

AnyOrderRepositories ==
    UNION {[1..n -> AnyOrderHistories] : n \in 0..MaxBranches}

OrderConfigs ==
    {c \in Configs : \/ c.excluded_members = <<>> /\ c.aliases = NoAliases
                     \/ c.excluded_members = <<<<"B">>>> /\ c.aliases = SomeAliases}

OrderWindows == {w \in Windows : w.start = TicksPerDay}

InitOrder ==
    /\ \E c \in OrderConfigs :
          /\ alias_mapping_by_group = c.aliases
          /\ excluded = c.excluded_members
    /\ group_label = "g1"
    /\ \E w \in OrderWindows :
          /\ start_date = w.start
          /\ end_date = w.end
    /\ branches \in AnyOrderRepositories
    /\ pc = "start"
    /\ RunIdle
    /\ branch_idx = 0
    /\ commit_idx = 0
    /\ changes_by_group = EmptyDict
    /\ warnings = {}
    /\ author_name = <<>>
    /\ unified_name = <<>>
    /\ data = EmptyDict
    /\ balance = EmptyDict

SpecOrder == InitOrder /\ [][Next]_vars

\* a sequence with the elements at i and i + 1 exchanged
Swap(s, i) ==
    [k \in 1..Len(s) |-> IF k = i THEN s[i + 1] ELSE IF k = i + 1 THEN s[i] ELSE s[k]]

\* the repositories obtained by exchanging two neighbouring branches or two
\* neighbouring commits of one branch
AdjacentSwaps(brs) ==
    {Swap(brs, i) : i \in 1..(Len(brs) - 1)}
        \cup UNION {{[brs EXCEPT ![b] = Swap(brs[b], i)] :
                        i \in 1..(Len(brs[b]) - 1)} : b \in 1..Len(brs)}

RECURSIVE CollectHistory(_, _)
\* the loop over the commits of one branch, run to its end
CollectHistory(changes, h) ==
    IF h = <<>> THEN changes
    ELSE LET c == Commit(Head(h))
         IN  CollectHistory(IF InWindow(c.committed_date) /\ ~IsExcluded(AuthorRaw(c))
                            THEN Accumulate(changes, c)
                            ELSE changes,
                            Tail(h))

RECURSIVE CollectBranches(_, _)
\* the loop over the branches, none failing
CollectBranches(changes, brs) ==
    IF brs = <<>> THEN changes
    ELSE CollectBranches(CollectHistory(changes, Head(brs)), Tail(brs))

\* the dataset returned for a repository traversed without failure
Collected(brs) == Summarize(CollectBranches(EmptyDict, brs))

\* C17: order independence - the dataset returned after a traversal
\* without failure is the dataset of the same repository traversed with any
\* two neighbouring branches, or any two neighbouring commits of a branch,
\* exchanged; every order of the branches and of the commits being reached
\* by such exchanges, the dataset is the same for every order.
C17_OrderIndependence ==
    (Returned /\ warnings = {}) =>
        \A o \in {branches} \cup AdjacentSwaps(branches) :
            Collected(o) = changes_by_group

\* a branch visited oldest commit first and a second branch visited newest
\* first, with commits of one author on one day, are all counted
C17_Witness ==
    /\ Returned
    /\ warnings = {}
    /\ Len(branches) = 2
    /\ \E i, j \in 1..Len(branches[1]) :
          /\ i < j
          /\ Commit(branches[1][i]).committed_date < Commit(branches[1][j]).committed_date
    /\ \E i, j \in 1..Len(branches[2]) :
          /\ i < j
          /\ Commit(branches[2][i]).committed_date > Commit(branches[2][j]).committed_date
    /\ branches[1] # branches[2]
    /\ \E u \in DOMAIN Members(changes_by_group) :
          \E d \in DaysOf(changes_by_group, u) :
              Bucket(changes_by_group, u, d)[1] >= 4

----------------------------------------------------------------------------
(* report_generator.write_volumes_to_csv                                   *)

\* what a group folder may hold: a plain file, a directory without .git, a
\* directory whose repository cannot be opened, and two repositories
DirEntries ==
    { [name |-> "notes", is_dir |-> FALSE, git |-> "absent", branches |-> <<>>],
      [name |-> "docs", is_dir |-> TRUE, git |-> "absent", branches |-> <<>>],
      [name |-> "broken", is_dir |-> TRUE, git |-> "unopenable", branches |-> <<>>],
      [name |-> "repo", is_dir |-> TRUE, git |-> "ok",
       branches |-> << <<3, 1>>, <<1>> >>],
      [name |-> "fork", is_dir |-> TRUE, git |-> "ok", branches |-> << <<3>> >>] }

\* the entries of a folder in the order iterdir() lists them
Listings(E, n) ==
    {l \in UNION {[1..k -> E] : k \in 0..n} :
        \A i, j \in 1..Len(l) : i # j => l[i].name # l[j].name}

\* the entries of student_folders: the group folders and a plain file
TopEntries ==
    {[name |-> "g1", is_dir |-> TRUE, entries |-> l] : l \in Listings(DirEntries, MaxEntries)}
        \cup {[name |-> "g2", is_dir |-> TRUE, entries |-> l] : l \in Listings(DirEntries, 1)}
        \cup {[name |-> "readme", is_dir |-> FALSE, entries |-> <<>>]}

StudentFolders == Listings(TopEntries, MaxTopEntries)

\* fixed_project_start_date, target_date and analysis_days: one day, two
\* days, and a period that ends before it starts
VolumePeriods ==
    { [start |-> TicksPerDay, target |-> TicksPerDay, analysis_days |-> 1],
      [start |-> TicksPerDay, target |-> TicksPerDay, analysis_days |-> 2],
      [start |-> 2 * TicksPerDay, target |-> TicksPerDay, analysis_days |-> 0] }

\* target_date + timedelta(days=analysis_days)
EndDate == target_date + args.analysis_days * TicksPerDay

\* the days listed up to target_date, the analysis days left out
DateListToTarget ==
    LET days == (target_date - fixed_project_start_date) \div TicksPerDay
    IN  [i \in 1..(IF days > 0 THEN days ELSE 0) |->
            fixed_project_start_date + (i - 1) * TicksPerDay]

\* the days of [fixed_project_start_date, end_date)
DateList ==
    LET days == (EndDate - fixed_project_start_date) \div TicksPerDay
    IN  [i \in 1..(IF days > 0 THEN days ELSE 0) |->
            fixed_project_start_date + (i - 1) * TicksPerDay]

\* [d for d in student_dir.iterdir() if d.is_dir()]
GitDirs(entries) == SelectSeq(entries, LAMBDA d : d.is_dir)

AtEntry == pc = "iterdir" /\ dir_idx < Len(args.student_folders)

student_dir == args.student_folders[dir_idx + 1]

git_repo_path == GitDirs(student_dir.entries)[1]

\* the orders in which sub_dict.items() may list the members
MemberOrders(sub_dict) ==
    {o \in [1..Cardinality(DOMAIN sub_dict) -> DOMAIN sub_dict] :
        \A i, j \in 1..Len(o) : i # j => o[i] # o[j]}

GlobalRow(member, changes) ==
    [group |-> group_label, member |-> member,
     insertions |-> changes.insertions, deletions |-> changes.deletions,
     total_commits |-> SumValues(changes.daily_commits),
     active_days |-> changes.active_days]

DailyRow(member, changes, day) ==
    LET day_str == DayStr(day)
    IN  [group |-> group_label, member |-> member, date |-> day_str,
         insertions |-> Get(changes.daily_insertions, day_str, 0),
         deletions |-> Get(changes.daily_deletions, day_str, 0),
         commits |-> Get(changes.daily_commits, day_str, 0)]

RECURSIVE DailyRowsOf(_, _)
\* the daily rows of the members of o, one per day of date_list each
DailyRowsOf(sub_dict, o) ==
    IF o = <<>> THEN <<>>
    ELSE [i \in 1..Len(DateList) |->
             DailyRow(Head(o), sub_dict[Head(o)], DateList[i])]
         \o DailyRowsOf(sub_dict, Tail(o))

InitVolumes ==
    /\ \E t \in StudentFolders, p \in VolumePeriods :
          /\ args = [student_folders |-> t, analysis_days |-> p.analysis_days]
          /\ fixed_project_start_date = p.start
          /\ target_date = p.target
    /\ alias_mapping_by_group = SomeAliases
    /\ excluded \in {<<>>, << <<"B">> >>}
    /\ config = EmptyDict
    /\ pc = "volumes"
    /\ dir_idx = 0
    /\ global_rows = <<>>
    /\ daily_rows = <<>>
    /\ produced = {}
    /\ group_label = ""
    /\ start_date = 0
    /\ end_date = 0
    /\ branches = <<>>
    /\ branch_idx = 0
    /\ commit_idx = 0
    /\ changes_by_group = EmptyDict
    /\ warnings = {}
    /\ author_name = <<>>
    /\ unified_name = <<>>
    /\ data = EmptyDict
    /\ balance = EmptyDict

\* what the collector and the balance computation leave alone
run_inputs == <<args, config, fixed_project_start_date, target_date,
                alias_mapping_by_group, excluded, author_name, unified_name,
                data, balance>>

collector_vars == <<group_label, start_date, end_date, branches, branch_idx,
                    commit_idx, changes_by_group, warnings>>

\* lines 58-65: both CSV files are created and receive their header
OpenCsv ==
    /\ pc = "volumes"
    /\ produced' = produced \cup {"output_csv", "daily_csv"}
    /\ global_rows' = <<>>
    /\ daily_rows' = <<>>
    /\ dir_idx' = 0
    /\ pc' = "iterdir"
    /\ UNCHANGED <<run_inputs, collector_vars>>

\* line 69: an entry of student_folders that is not a directory
SkipFile ==
    /\ AtEntry
    /\ ~student_dir.is_dir
    /\ dir_idx' = dir_idx + 1
    /\ UNCHANGED <<run_inputs, collector_vars, pc, global_rows, daily_rows, produced>>

\* lines 71-73: a group folder without subdirectory
SkipNoGitDirs ==
    /\ AtEntry
    /\ student_dir.is_dir
    /\ GitDirs(student_dir.entries) = <<>>
    /\ dir_idx' = dir_idx + 1
    /\ UNCHANGED <<run_inputs, collector_vars, pc, global_rows, daily_rows, produced>>

\* lines 74-87: collect_changes_by_group is called on the first subdirectory
\* (of the log, the lines of the previous call are not kept)
CallCollect ==
    /\ AtEntry
    /\ student_dir.is_dir
    /\ GitDirs(student_dir.entries) # <<>>
    /\ group_label' = student_dir.name
    /\ branches' = git_repo_path.branches
    /\ start_date' = fixed_project_start_date
    /\ end_date' = EndDate
    /\ pc' = "start"
    /\ branch_idx' = 0
    /\ commit_idx' = 0
    /\ changes_by_group' = EmptyDict
    /\ warnings' = {w \in warnings : w[1] \notin {"repo", "branch"}}
    /\ UNCHANGED <<run_inputs, dir_idx, global_rows, daily_rows, produced>>

\* the selected subdirectory has no .git
RepoHasNoGitDir == NoGitDir /\ git_repo_path.git = "absent"

\* the selected subdirectory has a .git that git.Repo rejects
RepoOpenFails == OpenFails /\ git_repo_path.git = "unopenable"

\* the selected subdirectory is a repository
RepoOpens == OpenRepo /\ git_repo_path.git = "ok"

\* a group without data ends the loop over the folders
NoDataBreaks ==
    /\ pc = "done"
    /\ changes_by_group = EmptyDict \/ group_label \notin DOMAIN changes_by_group
    /\ dir_idx' = Len(args.student_folders)
    /\ pc' = "iterdir"
    /\ UNCHANGED <<run_inputs, collector_vars, global_rows, daily_rows, produced>>

\* lines 89-91: no data for the group
NoData ==
    /\ pc = "done"
    /\ changes_by_group = EmptyDict \/ group_label \notin DOMAIN changes_by_group
    /\ dir_idx' = dir_idx + 1
    /\ pc' = "iterdir"
    /\ UNCHANGED <<run_inputs, collector_vars, global_rows, daily_rows, produced>>

\* a group with data is passed without a row
WriteNoRows ==
    /\ pc = "done"
    /\ changes_by_group # EmptyDict
    /\ group_label \in DOMAIN changes_by_group
    /\ dir_idx' = dir_idx + 1
    /\ pc' = "iterdir"
    /\ UNCHANGED <<run_inputs, collector_vars, global_rows, daily_rows, produced>>

\* lines 93-111: one global row per member, and one daily row per member
\* and day of date_list
WriteRows ==
    /\ pc = "done"
    /\ changes_by_group # EmptyDict
    /\ group_label \in DOMAIN changes_by_group
    /\ LET sub_dict == changes_by_group[group_label]
       IN  \E o \in MemberOrders(sub_dict) :
              /\ global_rows' = global_rows \o
                     [i \in 1..Len(o) |-> GlobalRow(o[i], sub_dict[o[i]])]
              /\ daily_rows' = daily_rows \o DailyRowsOf(sub_dict, o)
    /\ dir_idx' = dir_idx + 1
    /\ pc' = "iterdir"
    /\ UNCHANGED <<run_inputs, collector_vars, produced>>

\* iterdir() is exhausted: the files are closed and the function returns
EndVolumes ==
    /\ pc = "iterdir"
    /\ dir_idx = Len(args.student_folders)
    /\ pc' = "read"
    /\ UNCHANGED <<run_inputs, collector_vars, dir_idx, global_rows, daily_rows,
                   produced>>

NextVolumes ==
    \/ OpenCsv
    \/ SkipFile
    \/ SkipNoGitDirs
    \/ CallCollect
    \/ RepoHasNoGitDir
    \/ RepoOpenFails
    \/ RepoOpens
    \/ SkipOutsideWindow
    \/ SkipExcluded
    \/ CountCommit
    \/ EndBranch
    \/ BranchFails
    \/ ReturnChanges
    \/ NoData
    \/ WriteRows
    \/ EndVolumes

SpecVolumes == InitVolumes /\ [][NextVolumes]_vars

----------------------------------------------------------------------------
(* Properties of write_volumes_to_csv                                      *)

\* the groups that have a row
GroupsIn(rows) == {rows[i].group : i \in 1..Len(rows)}

\* collect_changes_by_group is running or has returned for the current entry
Collecting == pc \in {"start", "branches", "done"}

\* the selected subdirectory is no repository that can be opened
NoRepository == git_repo_path.git \in {"absent", "unopenable"}

\* the collector returns the empty dataset and never enters the branch loop
C13_EmptyResult ==
    (Collecting /\ NoRepository) =>
        /\ pc # "branches"
        /\ changes_by_group = EmptyDict

\* after the return the loop moves to the next entry and writes no row
C13_NextGroup ==
    (pc = "done" /\ NoRepository) =>
        /\ pc' = "iterdir"
        /\ dir_idx' = dir_idx + 1
        /\ global_rows' = global_rows
        /\ daily_rows' = daily_rows

\* C13: missing or unopenable repository - when the selected path has no
\* .git directory or its repository cannot be opened,
\* collect_changes_by_group returns the empty dataset; the orchestrator
\* then writes no row for the group and moves on to the next entry of
\* student_folders.
C13_MissingRepository == []C13_EmptyResult /\ [][C13_NextGroup]_vars

\* a first group whose subdirectory is no repository was passed without a
\* row, and the group listed after it has its rows
C13_Witness ==
    /\ pc = "read"
    /\ Len(args.student_folders) = 2
    /\ LET first == args.student_folders[1]
           second == args.student_folders[2]
       IN  /\ first.is_dir
           /\ GitDirs(first.entries) # <<>>
           /\ GitDirs(first.entries)[1].git \in {"absent", "unopenable"}
           /\ GroupsIn(global_rows) = {second.name}
           /\ GroupsIn(daily_rows) = {second.name}

\* a sequence starts with another
StartsWith(s, t) == Len(t) <= Len(s) /\ SubSeq(s, 1, Len(t)) = t

\* the rows already written stay, and the rows of a group are written when
\* its folder is iterated and at no other step
C14_RowsKept ==
    pc # "volumes" =>
        /\ StartsWith(global_rows', global_rows)
        /\ StartsWith(daily_rows', daily_rows)
        /\ (global_rows' # global_rows \/ daily_rows' # daily_rows) =>
               /\ pc = "done"
               /\ GroupsIn(global_rows) \cup GroupsIn(global_rows')
                      = GroupsIn(global_rows) \cup {group_label}
               /\ GroupsIn(daily_rows) \cup GroupsIn(daily_rows')
                      = GroupsIn(daily_rows) \cup {group_label}

\* an entry without subdirectory is passed: nothing else changes
C14_SkipWithoutError ==
    (AtEntry /\ GitDirs(student_dir.entries) = <<>>) =>
        /\ pc' = "iterdir"
        /\ dir_idx' = dir_idx + 1
        /\ global_rows' = global_rows
        /\ daily_rows' = daily_rows

\* when the loop leaves a group, the group has rows only if its repository
\* was opened and holds a qualifying commit, and it has global and daily
\* rows as soon as a branch traversed to its end holds a qualifying commit
C14_Presence ==
    (pc = "done" /\ pc' = "iterdir") =>
        /\ (group_label \in GroupsIn(global_rows') \cup GroupsIn(daily_rows'))
               => (Returned /\ ~NoRepository /\ QualifyingVisits # {})
        /\ (Returned /\ HealthyVisits # {})
               => /\ group_label \in GroupsIn(global_rows')
                  /\ group_label \in GroupsIn(daily_rows')

\* C14: group presence in the output - a group folder with no
\* subdirectory is skipped without error; a group has rows (global and
\* daily) in the final output if and only if its selected repository exists
\* and yields at least one qualifying commit (a commit inside the window,
\* by a non-excluded author, delivered by the traversal): a group without
\* repository and a group without qualifying commit have no row at all.
C14_GroupPresence ==
    [][C14_RowsKept /\ C14_SkipWithoutError /\ C14_Presence]_vars

\* a group whose repository holds no commit before end_date has no row, and
\* the other group of the tree has its rows
C14_Witness ==
    /\ pc = "read"
    /\ Len(args.student_folders) = 2
    /\ \E i, j \in 1..2 :
          LET absent == args.student_folders[i]
              present == args.student_folders[j]
          IN  /\ i # j
              /\ absent.is_dir /\ present.is_dir
              /\ GitDirs(absent.entries) # <<>>
              /\ GitDirs(absent.entries)[1].git = "ok"
              /\ \A b \in 1..Len(GitDirs(absent.entries)[1].branches) :
                    \A k \in 1..Len(GitDirs(absent.entries)[1].branches[b]) :
                        Commit(GitDirs(absent.entries)[1].branches[b][k]).committed_date
                            >= EndDate
              /\ GroupsIn(global_rows) = {present.name}
              /\ GroupsIn(daily_rows) = {present.name}

\* the orders in which iterdir() may list the entries of a folder
Relistings(entries) ==
    {l \in [1..Len(entries) -> {entries[i] : i \in 1..Len(entries)}] :
        \A i, j \in 1..Len(l) : i # j => l[i] # l[j]}

\* C18: deterministic repository selection - the subdirectory analysed as
\* the repository of a group folder is the same whatever order the
\* filesystem lists the entries of the folder in.
C18_DeterministicSelection ==
    Collecting =>
        \A l \in Relistings(student_dir.entries) :
            GitDirs(l)[1].name = git_repo_path.name

\* the calendar days of [fixed_project_start_date, end_date)
CalendarDays ==
    {d \in 0..DayStr(EndDate) :
        /\ fixed_project_start_date <= d * TicksPerDay
        /\ d * TicksPerDay < EndDate}

\* the positions of the rows of a (group, member)
RowsOf(rows, g, m) == {i \in 1..Len(rows) : rows[i].group = g /\ rows[i].member = m}

\* the (group, member) pairs of the rows
PairsIn(rows) == {<<rows[i].group, rows[i].member>> : i \in 1..Len(rows)}

RECURSIVE SumRows(_, _, _)
\* the sum of a column over a set of rows
SumRows(rows, S, column) ==
    IF S = {} THEN 0
    ELSE LET i == CHOOSE i \in S : TRUE
         IN  rows[i][column] + SumRows(rows, S \ {i}, column)

\* C19: consistency of the two output shapes - every (group, member)
\* written has exactly one global row and exactly one daily row per
\* calendar day of [fixed_project_start_date, end_date), end_date being
\* target_date + analysis_days, and no other daily row; the daily rows'
\* commits, insertions and deletions add up to the total commits,
\* insertions and deletions of the global row.
C19_OutputShapes ==
    /\ PairsIn(daily_rows) \subseteq PairsIn(global_rows)
    /\ \A p \in PairsIn(global_rows) :
          LET g == RowsOf(global_rows, p[1], p[2])
              d == RowsOf(daily_rows, p[1], p[2])
              total == global_rows[CHOOSE i \in g : TRUE]
          IN  /\ Cardinality(g) = 1
              /\ {daily_rows[i].date : i \in d} = CalendarDays
              /\ Cardinality(d) = Cardinality(CalendarDays)
              /\ SumRows(daily_rows, d, "commits") = total.total_commits
              /\ SumRows(daily_rows, d, "insertions") = total.insertions
              /\ SumRows(daily_rows, d, "deletions") = total.deletions

\* a period of two days: a member with commits on both days has one global
\* row of two commits and two daily rows of one commit each
C19_Witness ==
    /\ pc = "read"
    /\ Cardinality(CalendarDays) = 2
    /\ \E p \in PairsIn(global_rows) :
          LET g == RowsOf(global_rows, p[1], p[2])
              d == RowsOf(daily_rows, p[1], p[2])
          IN  /\ Cardinality(d) = 2
              /\ \A i \in d : daily_rows[i].commits >= 1
              /\ \A i \in g : global_rows[i].total_commits >= 2
                               /\ global_rows[i].active_days = 2

----------------------------------------------------------------------------
(* config.load_config, config.validate_date_format, main.main              *)

\* a date string is one digit, the number of its day; any other string is
\* not in the format '%Y-%m-%d'
DayOfDigit(c) == CASE c = "0" -> 0
                   [] c = "1" -> 1
                   [] c = "2" -> 2
                   [] c = "3" -> 3

WellFormedDate(date_str) ==
    Len(date_str) = 1 /\ date_str[1] \in {"0", "1", "2", "3"}

\* datetime.strptime(date_str, "%Y-%m-%d") of a well-formed string
validate_date_format(date_str) == DayOfDigit(date_str[1]) * TicksPerDay

\* datetime(2025, 2, 1): day 1
DefaultStartDate == TicksPerDay

\* the texts json.load accepts, each with the value it parses to
JsonDocuments ==
    [text \in {"{}", "full", "bad_start"} |->
        CASE text = "{}" -> EmptyDict
          [] text = "full" ->
                [k \in {"alias_mapping_by_group", "excluded_members",
                        "fixed_project_start_date"} |->
                    CASE k = "alias_mapping_by_group" -> SomeAliases
                      [] k = "excluded_members" -> << <<"B">> >>
                      [] k = "fixed_project_start_date" -> <<"2">>]
          [] text = "bad_start" ->
                [k \in {"fixed_project_start_date"} |-> <<"2", "x">>]]

\* the configuration file: missing, not JSON, or one of the documents
ConfigFiles ==
    {[readable |-> FALSE, text |-> ""], [readable |-> TRUE, text |-> "{"]}
        \cup {[readable |-> TRUE, text |-> t] : t \in DOMAIN JsonDocuments}

\* every file read as the empty configuration
LoadNothing(file) == EmptyDict

\* config.py:93-99
load_config(file) ==
    IF file.readable /\ file.text \in DOMAIN JsonDocuments
    THEN JsonDocuments[file.text]
    ELSE EmptyDict

RECURSIVE read_volumes(_, _)
\* report_generator.py:123-135, d being the dictionary built so far
read_volumes(d, rows) ==
    IF rows = <<>> THEN d
    ELSE LET row == Head(rows)
             members == Get(d, row.group, <<>>)
             stats == [member |-> row.member, insertions |-> row.insertions,
                       deletions |-> row.deletions,
                       total_commits |-> row.total_commits,
                       active_days |-> row.active_days]
             hits == {i \in 1..Len(members) : members[i].member = row.member}
         IN  read_volumes(
                 Put(d, row.group,
                     IF hits = {} THEN Append(members, stats)
                     ELSE [members EXCEPT ![CHOOSE i \in hits : TRUE] = stats]),
                 Tail(rows))

Reports == {"summary_table.pdf", "activity_histogram.pdf", "balance_report.pdf",
            "daily_charts.pdf"}

\* a group folder holding the named entries, in that order
Folder(name, names) ==
    [name |-> name, is_dir |-> TRUE,
     entries |-> [i \in 1..Len(names) |->
                     CHOOSE e \in DirEntries : e.name = names[i]]]

\* the folder trees main is run on
MainTrees ==
    { << Folder("g1", <<"repo">>), Folder("g2", <<"fork">>) >>,
      << Folder("g1", <<"docs">>), Folder("g2", <<"broken">>) >>,
      << [name |-> "readme", is_dir |-> FALSE, entries |-> <<>>],
         Folder("g1", <<"notes">>) >> }

TargetDates == {<<"1">>, <<"2">>, <<"1", "x">>}

InitMain ==
    /\ \E f \in ConfigFiles, t \in MainTrees, d \in TargetDates :
          args = [config_file |-> f, target_date |-> d, analysis_days |-> 1,
                  student_folders |-> t]
    /\ pc = "main"
    /\ config = EmptyDict
    /\ alias_mapping_by_group = EmptyDict
    /\ excluded = <<>>
    /\ fixed_project_start_date = 0
    /\ target_date = 0
    /\ dir_idx = 0
    /\ global_rows = <<>>
    /\ daily_rows = <<>>
    /\ produced = {}
    /\ group_label = ""
    /\ start_date = 0
    /\ end_date = 0
    /\ branches = <<>>
    /\ branch_idx = 0
    /\ commit_idx = 0
    /\ changes_by_group = EmptyDict
    /\ warnings = {}
    /\ author_name = <<>>
    /\ unified_name = <<>>
    /\ data = EmptyDict
    /\ balance = EmptyDict

volume_vars == <<dir_idx, global_rows, daily_rows, produced>>

\* main.py:55-60
LoadConfig ==
    /\ pc = "main"
    /\ config' = load_config(args.config_file)
    /\ alias_mapping_by_group' = Get(config', "alias_mapping_by_group", EmptyDict)
    /\ excluded' = Get(config', "excluded_members", <<>>)
    /\ pc' = "start_date"
    /\ UNCHANGED <<args, fixed_project_start_date, target_date, author_name,
                   unified_name, data, balance, collector_vars, volume_vars>>

\* main.py:63-68: the default, replaced by the configured date when the
\* configuration holds one that parses
SetStartDate ==
    /\ pc = "start_date"
    /\ IF "fixed_project_start_date" \in DOMAIN config
       THEN IF WellFormedDate(config["fixed_project_start_date"])
            THEN /\ fixed_project_start_date' =
                        validate_date_format(config["fixed_project_start_date"])
                 /\ warnings' = warnings
            ELSE /\ fixed_project_start_date' = DefaultStartDate
                 /\ warnings' = warnings \cup {<<"fixed_project_start_date", 0>>}
       ELSE /\ fixed_project_start_date' = DefaultStartDate
            /\ warnings' = warnings
    /\ pc' = "target"
    /\ UNCHANGED <<args, config, target_date, alias_mapping_by_group, excluded,
                   author_name, unified_name, data, balance, volume_vars,
                   group_label, start_date, end_date, branches, branch_idx,
                   commit_idx, changes_by_group>>

\* the target date replaced by the default start date when it does not parse
DefaultTargetDate ==
    /\ pc = "target"
    /\ ~WellFormedDate(args.target_date)
    /\ target_date' = DefaultStartDate
    /\ pc' = "volumes"
    /\ UNCHANGED <<args, config, fixed_project_start_date,
                   alias_mapping_by_group, excluded, author_name, unified_name,
                   data, balance, collector_vars, volume_vars>>

\* main.py:71-75, ValueError: the error is printed and main returns
AbortOnTargetDate ==
    /\ pc = "target"
    /\ ~WellFormedDate(args.target_date)
    /\ pc' = "aborted"
    /\ UNCHANGED <<run_inputs, collector_vars, volume_vars>>

\* main.py:71-72: the target date parses; write_volumes_to_csv is called
ValidateTarget ==
    /\ pc = "target"
    /\ WellFormedDate(args.target_date)
    /\ target_date' = validate_date_format(args.target_date)
    /\ pc' = "volumes"
    /\ UNCHANGED <<args, config, fixed_project_start_date,
                   alias_mapping_by_group, excluded, author_name, unified_name,
                   data, balance, collector_vars, volume_vars>>

\* main.py:91
ReadVolumes ==
    /\ pc = "read"
    /\ data' = read_volumes(EmptyDict, global_rows)
    /\ pc' = "balance"
    /\ UNCHANGED <<args, config, fixed_project_start_date, target_date,
                   alias_mapping_by_group, excluded, author_name, unified_name,
                   balance, collector_vars, volume_vars>>

\* main.py:93-113: the four PDF reports
GenerateReports ==
    /\ pc = "balanced"
    /\ produced' = produced \cup Reports
    /\ pc' = "finished"
    /\ UNCHANGED <<run_inputs, collector_vars, dir_idx, global_rows, daily_rows>>

NextMain ==
    \/ LoadConfig
    \/ SetStartDate
    \/ AbortOnTargetDate
    \/ ValidateTarget
    \/ NextVolumes
    \/ ReadVolumes
    \/ CalculateBalance
    \/ GenerateReports

SpecMain == InitMain /\ [][NextMain]_vars

----------------------------------------------------------------------------
(* Properties of main                                                      *)

\* the configuration file holds a start date that does not parse
StartDateMalformed ==
    LET c == load_config(args.config_file)
    IN  /\ "fixed_project_start_date" \in DOMAIN c
        /\ ~WellFormedDate(c["fixed_project_start_date"])

TargetDateMalformed == ~WellFormedDate(args.target_date)

\* no repository was touched and no file written
NothingProduced ==
    /\ pc \in {"main", "start_date", "target", "aborted"}
    /\ produced = {}
    /\ global_rows = <<>>
    /\ daily_rows = <<>>
    /\ dir_idx = 0
    /\ changes_by_group = EmptyDict
    /\ data = EmptyDict
    /\ balance = EmptyDict

\* C11 as first stated: a malformed configured start date, like a malformed
\* target date, keeps the run from touching any repository and from
\* producing any dataset, CSV or report
C11_MalformedDatesFatal ==
    (StartDateMalformed \/ TargetDateMalformed) => NothingProduced

\* a malformed target date keeps the run from producing anything
C11_TargetDateFatal == TargetDateMalformed => NothingProduced

\* a malformed configured start date is logged and replaced by the default
C11_StartDateDefault ==
    (StartDateMalformed /\ pc \notin {"main", "start_date"}) =>
        /\ fixed_project_start_date = DefaultStartDate
        /\ <<"fixed_project_start_date", 0>> \in warnings

\* main returns early on a malformed target date and on nothing else
C11_OnlyAbort ==
    pc' = "aborted" => (pc = "target" /\ TargetDateMalformed)

\* a run that can go no further has aborted on the target date or has
\* written both CSV files and the reports
C11_RunsToTheEnd ==
    (~ENABLED NextMain) =>
        \/ pc = "aborted" /\ TargetDateMalformed
        \/ /\ pc = "finished"
           /\ produced = {"output_csv", "daily_csv"} \cup Reports
           /\ dir_idx = Len(args.student_folders)

\* C11: a malformed target date is fatal - the run aborts before any
\* repository is touched and produces no dataset, CSV or report; a
\* malformed configured start date is not fatal - it is logged and the
\* default start date is used; no other error (missing or unopenable
\* repository, failing branch) aborts the run, which goes through every
\* entry of student_folders and produces the CSV files and the reports.
C11_FatalDates ==
    /\ [](C11_TargetDateFatal /\ C11_StartDateDefault /\ C11_RunsToTheEnd)
    /\ [][C11_OnlyAbort]_vars

\* a run whose configured start date is malformed has finished, past an
\* unopenable repository, with the default start date and every file
C11_Witness ==
    /\ StartDateMalformed
    /\ ~TargetDateMalformed
    /\ pc = "finished"
    /\ fixed_project_start_date = DefaultStartDate
    /\ \E i \in 1..Len(args.student_folders) :
          /\ GitDirs(args.student_folders[i].entries) # <<>>
          /\ GitDirs(args.student_folders[i].entries)[1].git = "unopenable"
    /\ produced = {"output_csv", "daily_csv"} \cup Reports

\* json.load accepts the configuration file
ConfigParses ==
    args.config_file.readable /\ args.config_file.text \in DOMAIN JsonDocuments

\* C15: load_config returns the parsed configuration unchanged when the
\* file holds valid JSON and the empty dictionary when the file cannot be
\* read or parsed; in the second case the run is not stopped by it and
\* proceeds with an empty alias table, an empty exclusion list and the
\* default start date.
C15_ConfigFallback ==
    /\ pc # "main" =>
          /\ ConfigParses => config = JsonDocuments[args.config_file.text]
          /\ ~ConfigParses =>
                /\ config = EmptyDict
                /\ alias_mapping_by_group = EmptyDict
                /\ excluded = <<>>
                /\ pc # "start_date" => fixed_project_start_date = DefaultStartDate
                /\ pc = "aborted" => TargetDateMalformed
    /\ (~ConfigParses /\ ~TargetDateMalformed /\ ~ENABLED NextMain) =>
          /\ pc = "finished"
          /\ start_date \in {0, DefaultStartDate}

\* a run whose configuration file is not valid JSON has finished with rows
\* counted from the default start date, no alias resolved and nobody
\* excluded
C15_Witness ==
    /\ args.config_file.readable
    /\ ~ConfigParses
    /\ pc = "finished"
    /\ start_date = DefaultStartDate
    /\ \E i \in 1..Len(global_rows) :
          /\ global_rows[i].group = "g2"
          /\ global_rows[i].member = <<"b">>

----------------------------------------------------------------------------
(* No empty entries in the dataset of collect_changes_by_group             *)

\* the global statistics that write_volumes_to_csv and read_volumes make
\* of a dataset, its members listed in the order o
AggregatedData(changes, o) ==
    read_volumes(EmptyDict,
                 [i \in 1..Len(o) |-> GlobalRow(o[i], Members(changes)[o[i]])])

\* the visits of a commit that one of the two filters drops
DroppedVisits == {v \in Visits : ~Qualifies(VisitedCommit(v))}

\* C21: no empty entries - the dataset returned by collect_changes_by_group
\* holds no key but group_label; every unified author in it has at least
\* one counted commit and every stored day a commit count >= 1, so that
\* active_days is the number of stored days and is >= 1; every group of
\* the global statistics aggregated from it has a positive total commit
\* count, and calculate_balance_indicators never takes its zero-commit
\* branch on them.
C21_NoEmptyEntries ==
    Returned =>
        /\ DOMAIN changes_by_group \subseteq {group_label}
        /\ \A g \in DOMAIN changes_by_group :
              /\ DOMAIN changes_by_group[g] # {}
              /\ \A m \in DOMAIN changes_by_group[g] :
                    LET a == changes_by_group[g][m]
                    IN  /\ DOMAIN a.daily_commits # {}
                        /\ \A d \in DOMAIN a.daily_commits :
                              a.daily_commits[d] >= 1
                        /\ SumValues(a.daily_commits) >= 1
                        /\ a.active_days = Cardinality(DOMAIN a.daily_commits)
                        /\ a.active_days >= 1
        /\ \A o \in MemberOrders(Members(changes_by_group)) :
              LET d == AggregatedData(changes_by_group, o)
              IN  /\ DOMAIN d = DOMAIN changes_by_group
                  /\ \A g \in DOMAIN d :
                        /\ SumCommits(d[g]) > 0
                        /\ calculate_balance_indicators(d)[g].dominant_member
                              \in DOMAIN changes_by_group[g]
                        /\ calculate_balance_indicators(d)[g].dominant_ratio[1] > 0

\* a returned dataset with an author of several commits on one day, next to
\* a dropped commit whose author has no entry
C21_Witness ==
    /\ Returned
    /\ group_label \in DOMAIN changes_by_group
    /\ \E m \in DOMAIN Members(changes_by_group) :
          LET a == Members(changes_by_group)[m]
          IN  a.active_days < SumValues(a.daily_commits)
    /\ \E v \in DroppedVisits :
          UnifiedOf(VisitedCommit(v)) \notin DOMAIN Members(changes_by_group)

----------------------------------------------------------------------------
(* Exclusion and alias resolution                                          *)

\* the trimmed, lower-cased raw author name of a commit equals the
\* lower-cased form of an entry of excluded_members
RawNameExcluded(commit) ==
    \E k \in 1..Len(excluded) :
        Lower(Strip(commit.author)) = Lower(excluded[k])

\* the step visits a commit of the window, which reaches the exclusion filter
VisitsInWindow ==
    /\ HasNextCommit
    /\ commit_idx' = commit_idx + 1
    /\ branch_idx' = branch_idx
    /\ InHalfOpenWindow(NextCommit)

\* the commit is dropped exactly when its raw name is excluded, and is
\* otherwise counted under the unified name
C22_Step ==
    VisitsInWindow =>
        LET c == NextCommit
            u == UnifiedOf(c)
            d == DayStr(c.committed_date)
        IN  /\ RawNameExcluded(c) <=> changes_by_group' = changes_by_group
            /\ ~RawNameExcluded(c) =>
                  Bucket(changes_by_group', u, d)[1] =
                      Bucket(changes_by_group, u, d)[1] + 1

\* the visits of commits of the window whose raw name is not excluded
KeptVisits ==
    {v \in Visits : /\ InHalfOpenWindow(VisitedCommit(v))
                    /\ ~RawNameExcluded(VisitedCommit(v))}

\* after a traversal without failure every kept visit is counted under its
\* unified name, listed or not, and nothing else is
C22_Returned ==
    (Returned /\ warnings = {}) =>
        /\ \A v \in KeptVisits :
              Bucket(changes_by_group, UnifiedOf(VisitedCommit(v)),
                     DayStr(VisitedCommit(v).committed_date))[1] =
                  Cardinality(InBucket(KeptVisits, UnifiedOf(VisitedCommit(v)),
                                  DayStr(VisitedCommit(v).committed_date)))
        /\ TotalCommits(changes_by_group) = Cardinality(KeptVisits)

====
